---------------------------- MODULE Spec2Model ----------------------------
(* generate_barcodes_from_csv of code_to_img.py as a state machine.        *)
(* Strings are sequences of one-character strings, so that strip, lower,   *)
(* the filename filter, os.path.join and str.replace are computed as the   *)
(* code computes them.  "U+0663" stands for the single character ARABIC-   *)
(* INDIC DIGIT THREE, for which str.isdigit() and str.isalnum() are true.  *)
EXTENDS Integers, Sequences, FiniteSets, TLC

VARIABLES cfg, pc, exit, fileOpen, dirReady, i, processed_count,
          skipped_count, files, last

\* cfg              the arguments of generate_barcodes_from_csv (line 37)
\* pc               where the run is: makedirs (55), get_class (63), open (81),
\*                  header (85), rows (94), done (returned)
\* exit             why the run ended, "running" until then
\* fileOpen         the with block of line 81 holds the CSV handle
\* dirReady         os.makedirs succeeded (56)
\* i                the index enumerate() gives the next row (94)
\* processed_count  (76, 129)
\* skipped_count    (77, 102, 109, 133, 137, 141)
\* files            the image files written: path -> the row that wrote it
\* last             the locals of the last loop iteration (95-133)
vars == <<cfg, pc, exit, fileOpen, dirReady, i, processed_count,
          skipped_count, files, last>>

\* ------------------------------------------------------------------ bounds
\* Largest number of data rows the CSV reader yields in one run.
MaxRows == 2

\* Length the EAN-13 validation requires.
EanLen == 12

\* ------------------------------------------------------- character classes
UpperLetters == <<"A","B","C","D","E","F","G","H","I","J","K","L","M",
                  "N","O","P","Q","R","S","T","U","V","W","X","Y","Z">>
LowerLetters == <<"a","b","c","d","e","f","g","h","i","j","k","l","m",
                  "n","o","p","q","r","s","t","u","v","w","x","y","z">>

AsciiDigits == {"0","1","2","3","4","5","6","7","8","9"}
UnicodeDigits == {"U+0663"}

Range(s) == {s[k] : k \in DOMAIN s}

\* str.isdigit() of one character
IsDigitChar(c) == c \in AsciiDigits \cup UnicodeDigits

\* str.isalnum() of one character
IsAlnumChar(c) == IsDigitChar(c) \/ c \in Range(UpperLetters) \/ c \in Range(LowerLetters)

\* the characters str.strip() and str.rstrip() remove
IsSpaceChar(c) == c \in {" ", "\t"}

\* str.lower() of one character
LowerChar(c) ==
    IF c \in Range(UpperLetters)
    THEN LowerLetters[CHOOSE k \in DOMAIN UpperLetters : UpperLetters[k] = c]
    ELSE c

\* str.lower()
Lower(s) == [k \in DOMAIN s |-> LowerChar(s[k])]

\* str.isdigit(): every character a digit and at least one character
IsDigit(s) == s # <<>> /\ \A k \in DOMAIN s : IsDigitChar(s[k])

RECURSIVE RStrip(_)
\* str.rstrip()
RStrip(s) ==
    IF s = <<>> THEN s
    ELSE IF IsSpaceChar(s[Len(s)]) THEN RStrip(SubSeq(s, 1, Len(s) - 1))
    ELSE s

RECURSIVE LStrip(_)
LStrip(s) ==
    IF s = <<>> THEN s
    ELSE IF IsSpaceChar(s[1]) THEN LStrip(Tail(s))
    ELSE s

\* str.strip()
Strip(s) == RStrip(LStrip(s))

RECURSIVE Decimal(_)
\* the decimal digits of a natural number, as an f-string formats it
Decimal(n) ==
    LET d == <<"0","1","2","3","4","5","6","7","8","9">>[(n % 10) + 1]
    IN  IF n < 10 THEN <<d>> ELSE Append(Decimal(n \div 10), d)

IsPrefixAt(s, old, k) ==
    /\ k + Len(old) - 1 <= Len(s)
    /\ SubSeq(s, k, k + Len(old) - 1) = old

RECURSIVE Remove(_, _)
\* str.replace(old, ''): every non-overlapping occurrence of old, left to
\* right, is removed (old is never empty here: it starts with ".").
Remove(s, old) ==
    IF s = <<>> THEN s
    ELSE IF IsPrefixAt(s, old, 1)
         THEN Remove(SubSeq(s, Len(old) + 1, Len(s)), old)
         ELSE <<s[1]>> \o Remove(Tail(s), old)

\* os.path.join(a, b) for a relative b
Join(a, b) ==
    IF a = <<>> THEN b
    ELSE IF a[Len(a)] = "/" THEN a \o b
    ELSE a \o <<"/">> \o b

\* ------------------------------------------------------ filename derivation
AllowedChar(c) == IsAlnumChar(c) \/ c \in {"-", "_"}

NotSlash(c) == c # "/"

\* faulty variant: only the path separator is removed
Sanitize_Blacklist(code_data) == RStrip(SelectSeq(code_data, NotSlash))

\* "".join(c for c in code_data if c.isalnum() or c in ('-', '_')).rstrip()
Sanitize(code_data) == RStrip(SelectSeq(code_data, AllowedChar))

FallbackName(row_number) ==
    <<"k","o","d","_","w","i","e","r","s","z","_">> \o Decimal(row_number)

SafeFilename(code_data, row_number) ==
    IF Sanitize(code_data) = <<>> THEN FallbackName(row_number)
    ELSE Sanitize(code_data)

Extension(img_format) == <<".">> \o Lower(img_format)

OutputFilename(code_data, row_number, img_format) ==
    SafeFilename(code_data, row_number) \o Extension(img_format)

OutputPath(output_folder, code_data, row_number, img_format) ==
    Join(output_folder, OutputFilename(code_data, row_number, img_format))

\* the base name handed to save(): output_path.replace('.<ext>', '')
SaveArgument(output_folder, code_data, row_number, img_format) ==
    Remove(OutputPath(output_folder, code_data, row_number, img_format),
           Extension(img_format))

\* the file the writer creates for a base name: it appends the extension
WrittenPath(output_folder, code_data, row_number, img_format) ==
    SaveArgument(output_folder, code_data, row_number, img_format)
        \o Extension(img_format)


\* ------------------------------------------------------------------ inputs
D10 == <<"1","2","3","4","5","6","7","8","9","0">>

\* raw CSV fields, before strip()
F_valid    == D10 \o <<"1","2">>
F_padded   == <<" ">> \o D10 \o <<"1","2"," ","\t">>
F_short    == <<"1","2","3","4","5">>
F_letter   == D10 \o <<"1","A">>
F_13       == D10 \o <<"1","2","3">>
F_unicode  == D10 \o <<"1","U+0663">>
F_empty    == <<>>
F_blank    == <<" "," "," ">>
F_slash    == <<"A","B","/","?","1">>
F_plain    == <<"A","B","1">>
F_unsafe   == <<"/","?">>
F_spaced   == <<"a","-","_"," ","b"," ","/">>

Fields == {F_valid, F_padded, F_spaced, F_short, F_letter, F_13, F_unicode,
           F_empty, F_blank, F_slash, F_plain, F_unsafe}

\* rows the csv reader can yield: a blank line, one field, two fields
Rows == {<<>>} \cup {<<f>> : f \in Fields}
            \cup {<<F_short, F_valid>>, <<F_valid, F_short>>}

EAN13 == <<"e","a","n","1","3">>

CodeFormats == {<<"E","A","N","1","3">>, <<"c","o","d","e","1","2","8">>,
                <<"q","r">>}

\* the names the collaborator's registry resolves (it lowercases the name)
KnownFormats == {EAN13, <<"c","o","d","e","1","2","8">>}

ImgFormats == {<<"P","N","G">>, <<"s","v","g">>}

OutputFolders == {<<"o","u","t">>, <<"o","u","t",".","p","n","g">>}

ColIndexes == {-1, 0}

Configs == [input_csv : {<<"k","o","d","y",".","c","s","v">>},
            output_folder : OutputFolders,
            code_format : CodeFormats,
            img_format : ImgFormats,
            col_index : ColIndexes,
            skip_header : BOOLEAN]

\* what the collaborator does with one code: succeed, raise while the
\* barcode object is constructed, raise while the image is saved
CollabResults == {"ok", "construct_error", "save_error"}

\* ------------------------------------------------------------- row handling
NoRow == [row_number |-> 0, outcome |-> "none", code_data |-> <<>>,
          called |-> FALSE, safe_filename |-> <<>>, save_arg |-> <<>>,
          written |-> <<>>]

NoFiles == [p \in {} |-> NoRow]

\* faulty variant: the header row is not counted
RowNumber_IgnoresHeader(idx, skip_header) == idx + 1

\* row_number = i + (2 if skip_header else 1)
RowNumber(idx, skip_header) == idx + (IF skip_header THEN 2 ELSE 1)

\* row[col_index] raises IndexError
IndexError(row, col_index) ==
    IF col_index >= 0 THEN col_index >= Len(row) ELSE -col_index > Len(row)

\* row[col_index], Python indexing (negative indexes count from the end)
Item(row, col_index) ==
    IF col_index >= 0 THEN row[col_index + 1] ELSE row[Len(row) + col_index + 1]

\* faulty variant: the length checked is that of the full EAN-13, check digit included
FailsEan13_FullLength(code_data) == ~IsDigit(code_data) \/ Len(code_data) # EanLen + 1

\* faulty variant: the length is not checked
FailsEan13_NoLength(code_data) == ~IsDigit(code_data)

\* the EAN-13 check fails: not code_data.isdigit() or len(code_data) != 12
FailsEan13(code_data) == ~IsDigit(code_data) \/ Len(code_data) # EanLen

\* code_format.lower() == 'ean13'
IsEan13(code_format) == Lower(code_format) = EAN13

\* which branch of the loop body one row takes
RowOutcome(row, collab) ==
    IF Len(row) > cfg.col_index
    THEN IF IndexError(row, cfg.col_index) THEN "unexpected"
         ELSE LET code_data == Strip(Item(row, cfg.col_index))
              IN  IF code_data = <<>> THEN "empty"
                  ELSE IF IsEan13(cfg.code_format) /\ FailsEan13(code_data)
                       THEN "invalid"
                  ELSE IF collab = "ok" THEN "ok"
                  ELSE collab
    ELSE "short"

\* code_data as far as the branch taken assigned it
CodeData(row) ==
    IF Len(row) > cfg.col_index /\ ~IndexError(row, cfg.col_index)
    THEN Strip(Item(row, cfg.col_index))
    ELSE <<>>

\* faulty variant: processed_count is incremented before save() is called
ProcessedAfter_BeforeSave(outcome) ==
    IF outcome \in {"ok", "save_error"} THEN processed_count + 1 ELSE processed_count

\* processed_count after a row with this outcome
ProcessedAfter(outcome) ==
    IF outcome = "ok" THEN processed_count + 1 ELSE processed_count

\* faulty variant: the handler of collaborator errors does not count the row
SkippedAfter_CollabUncounted(outcome) ==
    IF outcome \in {"short", "empty", "invalid", "unexpected"}
    THEN skipped_count + 1
    ELSE skipped_count

\* skipped_count after a row with this outcome
SkippedAfter(outcome) ==
    IF outcome \in {"short", "empty", "invalid", "construct_error",
                    "save_error", "unexpected"}
    THEN skipped_count + 1
    ELSE skipped_count

\* faulty variant: an existing file is not overwritten
Save_KeepFirst(path, image) ==
    [p \in DOMAIN files \cup {path} |-> IF p \in DOMAIN files THEN files[p] ELSE image]

\* the file system after save() wrote the image of this row at path
Save(path, image) ==
    [p \in DOMAIN files \cup {path} |-> IF p = path THEN image ELSE files[p]]

\* ----------------------------------------------------------------- actions
Init ==
    /\ cfg \in Configs
    /\ pc = "makedirs"
    /\ exit = "running"
    /\ fileOpen = FALSE
    /\ dirReady = FALSE
    /\ i = 0
    /\ processed_count = 0
    /\ skipped_count = 0
    /\ files = NoFiles
    /\ last = NoRow

\* os.makedirs(output_folder, exist_ok=True); OSError ends the run
MakeDirs ==
    /\ pc = "makedirs"
    /\ \E ok \in BOOLEAN :
         IF ok
         THEN /\ dirReady' = TRUE
              /\ pc' = "get_class"
              /\ exit' = exit
         ELSE /\ dirReady' = FALSE
              /\ pc' = "done"
              /\ exit' = "dir_error"
    /\ UNCHANGED <<cfg, fileOpen, i, processed_count, skipped_count, files, last>>

\* faulty variant: the unknown format is logged but the run goes on
GetBarcodeClass_NoReturn ==
    /\ pc = "get_class"
    /\ pc' = "open"
    /\ exit' = IF Lower(cfg.code_format) \in KnownFormats THEN exit ELSE "unknown_format"
    /\ processed_count' = 0
    /\ skipped_count' = 0
    /\ UNCHANGED <<cfg, fileOpen, dirReady, i, files, last>>

\* barcode.get_barcode_class(code_format); BarcodeNotFoundError ends the run
GetBarcodeClass ==
    /\ pc = "get_class"
    /\ IF Lower(cfg.code_format) \in KnownFormats
       THEN /\ pc' = "open"
            /\ exit' = exit
       ELSE /\ pc' = "done"
            /\ exit' = "unknown_format"
    /\ processed_count' = 0
    /\ skipped_count' = 0
    /\ UNCHANGED <<cfg, fileOpen, dirReady, i, files, last>>

\* with open(input_csv, ...) as csvfile
OpenCsv ==
    /\ pc = "open"
    /\ \E r \in {"ok", "not_found", "error"} :
         IF r = "ok"
         THEN /\ fileOpen' = TRUE
              /\ pc' = IF cfg.skip_header THEN "header" ELSE "rows"
              /\ exit' = exit
         ELSE /\ fileOpen' = FALSE
              /\ pc' = "done"
              /\ exit' = r
    /\ UNCHANGED <<cfg, dirReady, i, processed_count, skipped_count, files, last>>

\* faulty variant: the return on an empty file leaves the handle open
SkipHeader_LeaksHandle ==
    /\ pc = "header"
    /\ \E r \in {"row", "empty_csv", "read_error"} :
         IF r = "row"
         THEN /\ pc' = "rows"
              /\ UNCHANGED <<fileOpen, exit>>
         ELSE /\ fileOpen' = (r = "empty_csv")
              /\ pc' = "done"
              /\ exit' = r
    /\ UNCHANGED <<cfg, dirReady, i, processed_count, skipped_count, files, last>>

\* header = next(reader); StopIteration returns, another exception is logged
SkipHeader ==
    /\ pc = "header"
    /\ \E r \in {"row", "empty_csv", "read_error"} :
         IF r = "row"
         THEN /\ pc' = "rows"
              /\ UNCHANGED <<fileOpen, exit>>
         ELSE /\ fileOpen' = FALSE
              /\ pc' = "done"
              /\ exit' = r
    /\ UNCHANGED <<cfg, dirReady, i, processed_count, skipped_count, files, last>>

\* one iteration of "for i, row in enumerate(reader)"
HandleRow(row, collab) ==
    /\ pc = "rows"
    /\ i < MaxRows
    /\ LET row_number == RowNumber(i, cfg.skip_header)
           outcome == RowOutcome(row, collab)
           code_data == CodeData(row)
           called == outcome \in CollabResults
           named == outcome \in {"ok", "save_error"}
           save_arg == SaveArgument(cfg.output_folder, code_data, row_number,
                                    cfg.img_format)
           written == WrittenPath(cfg.output_folder, code_data, row_number,
                                  cfg.img_format)
           this == [row_number |-> row_number, outcome |-> outcome,
                    code_data |-> code_data, called |-> called,
                    safe_filename |-> IF named
                                      THEN SafeFilename(code_data, row_number)
                                      ELSE <<>>,
                    save_arg |-> IF named THEN save_arg ELSE <<>>,
                    written |-> IF outcome = "ok" THEN written ELSE <<>>]
       IN  /\ last' = this
           /\ files' = IF outcome = "ok" THEN Save(written, this) ELSE files
           /\ processed_count' = ProcessedAfter(outcome)
           /\ skipped_count' = SkippedAfter(outcome)
    /\ i' = i + 1
    /\ UNCHANGED <<cfg, pc, exit, fileOpen, dirReady>>

\* the reader is exhausted: the with block closes the file, the summary is logged
EndOfRows ==
    /\ pc = "rows"
    /\ fileOpen' = FALSE
    /\ pc' = "done"
    /\ exit' = "completed"
    /\ UNCHANGED <<cfg, dirReady, i, processed_count, skipped_count, files, last>>

\* the reader raises while the next row is read (csv.Error, UnicodeDecodeError)
ReadError ==
    /\ pc = "rows"
    /\ fileOpen' = FALSE
    /\ pc' = "done"
    /\ exit' = "read_error"
    /\ UNCHANGED <<cfg, dirReady, i, processed_count, skipped_count, files, last>>

Next ==
    \/ MakeDirs
    \/ GetBarcodeClass
    \/ OpenCsv
    \/ SkipHeader
    \/ \E row \in Rows, collab \in CollabResults : HandleRow(row, collab)
    \/ EndOfRows
    \/ ReadError

Spec == Init /\ [][Next]_vars


\* ------------------------------------------------------------------ claims
\* the last component of a path
RECURSIVE Basename(_)
Basename(path) ==
    IF "/" \notin Range(path) THEN path
    ELSE Basename(Tail(path))

\* a step that handled one data row
RowStep == pc = "rows" /\ i' = i + 1

\* the code value of the row just handled is 12 digit characters
TwelveDigits(code_data) == IsDigit(code_data) /\ Len(code_data) = 12

\* the step wrote exactly one file, the image of the row just handled, under
\* this name, and left every other file alone
WroteOneFile(name) ==
    \E p \in DOMAIN files' :
        /\ Basename(p) = name
        /\ files'[p] = last'
        /\ DOMAIN files' = DOMAIN files \cup {p}
        /\ \A q \in DOMAIN files' \ {p} : q \in DOMAIN files /\ files'[q] = files[q]

\* C1 as stated: with the EAN-13 format, every data row whose trimmed code is
\* exactly 12 digit characters produces exactly one image file named from the
\* sanitized code, processed grows by one and skipped does not change.
C1_EveryValidRowProcessed ==
    [][(RowStep /\ IsEan13(cfg.code_format) /\ TwelveDigits(last'.code_data))
         => /\ WroteOneFile(Sanitize(last'.code_data) \o Extension(cfg.img_format))
            /\ processed_count' = processed_count + 1
            /\ skipped_count' = skipped_count]_vars

\* C1 amended: with the EAN-13 format, every data row whose trimmed code is
\* exactly 12 digit characters and for which the rendering collaborator does
\* not raise produces exactly one image file named from the sanitized code,
\* processed grows by one and skipped does not change.
C1_ValidRowProcessedUnlessCollaboratorFails ==
    [][(/\ RowStep
        /\ IsEan13(cfg.code_format)
        /\ TwelveDigits(last'.code_data)
        /\ last'.outcome \notin {"construct_error", "save_error"})
         => /\ WroteOneFile(Sanitize(last'.code_data) \o Extension(cfg.img_format))
            /\ processed_count' = processed_count + 1
            /\ skipped_count' = skipped_count]_vars

C1_Witness ==
    /\ IsEan13(cfg.code_format)
    /\ TwelveDigits(last.code_data)
    /\ last.outcome = "ok"
    /\ last.written \in DOMAIN files
    /\ processed_count = 2

\* C2: with the EAN-13 format, a data row whose trimmed, non-empty code holds
\* a non-digit character or is not 12 characters long is skipped: the
\* collaborator is not invoked, no file is written or changed, skipped grows
\* by one and processed does not change.
C2_InvalidEanRowSkipped ==
    [][(/\ RowStep
        /\ IsEan13(cfg.code_format)
        /\ last'.code_data # <<>>
        /\ \/ \E k \in DOMAIN last'.code_data : ~IsDigitChar(last'.code_data[k])
           \/ Len(last'.code_data) # 12)
         => /\ ~last'.called
            /\ last'.save_arg = <<>>
            /\ files' = files
            /\ skipped_count' = skipped_count + 1
            /\ processed_count' = processed_count]_vars

C2_Witness ==
    /\ IsEan13(cfg.code_format)
    /\ last.code_data = F_13
    /\ last.outcome = "invalid"
    /\ skipped_count = 1
    /\ processed_count = 1


\* the fatal setup failures: directory not creatable, format unknown, CSV
\* missing, CSV unopenable, CSV empty with header skip
SetupFailures == {"dir_error", "unknown_format", "not_found", "error", "empty_csv"}

\* C3: a step in which a fatal setup failure occurs ends the run with both
\* counters zero, no data row handled and no file written.
C3_SetupFailureAbortsWithZeroCounts ==
    [][exit' \in SetupFailures
         => /\ pc' = "done"
            /\ processed_count' = 0
            /\ skipped_count' = 0
            /\ i' = 0
            /\ last' = NoRow
            /\ files' = NoFiles
            /\ ~fileOpen']_vars

C3_Witness ==
    /\ pc = "done"
    /\ exit = "empty_csv"
    /\ cfg.skip_header
    /\ processed_count = 0
    /\ skipped_count = 0

\* C4: when the collaborator (construction or save) or another step raises
\* while one data row is handled, skipped grows by one, processed and the
\* files do not change, and the loop goes on: the file stays open and the
\* run is still iterating over the rows.
C4_RowErrorStaysInLoop ==
    [][(RowStep /\ last'.outcome \in {"construct_error", "save_error", "unexpected"})
         => /\ skipped_count' = skipped_count + 1
            /\ processed_count' = processed_count
            /\ files' = files
            /\ pc' = "rows"
            /\ exit' = "running"
            /\ fileOpen']_vars

C4_Witness ==
    /\ pc = "rows"
    /\ fileOpen
    /\ i = 2
    /\ last.outcome = "save_error"
    /\ last.called
    /\ skipped_count = 1
    /\ processed_count = 1

\* C5: every file written lies in the configured output directory under the
\* name <safe filename>.<lowercased image format>.
C5_FilesInsideOutputFolder ==
    \A p \in DOMAIN files :
        p = Join(cfg.output_folder,
                 SafeFilename(files[p].code_data, files[p].row_number)
                     \o <<".">> \o Lower(cfg.img_format))

\* C6: the row number of the k-th data row is k + 1 with header skipping and
\* k without, and the fallback filename carries that number.
C6_RowNumbering ==
    last.outcome # "none" =>
        LET n == IF cfg.skip_header THEN i + 1 ELSE i
        IN  /\ last.row_number = n
            /\ (last.outcome = "ok" /\ Sanitize(last.code_data) = <<>>)
                 => Basename(last.written)
                      = <<"k","o","d","_","w","i","e","r","s","z","_">>
                          \o Decimal(n) \o Extension(cfg.img_format)

C6_Witness ==
    /\ cfg.skip_header
    /\ i = 1
    /\ last.row_number = 2
    /\ last.outcome = "ok"
    /\ Sanitize(last.code_data) = <<>>

\* the files whose name is this safe filename with the image extension
FilesNamed(fs, safe) ==
    {q \in DOMAIN fs : Basename(q) = safe \o Extension(cfg.img_format)}

\* C7: when a row is processed successfully whose safe filename is that of an
\* earlier successful row with a different code, one file of that name
\* exists afterwards, it holds the later row's image, and processed counts
\* both rows.
C7_LaterRowOverwrites ==
    [][(/\ RowStep
        /\ last'.outcome = "ok"
        /\ \E p \in DOMAIN files :
              /\ files[p].code_data # last'.code_data
              /\ files[p].safe_filename = last'.safe_filename)
         => /\ Cardinality(FilesNamed(files', last'.safe_filename)) = 1
            /\ \A q \in FilesNamed(files', last'.safe_filename) : files'[q] = last'
            /\ processed_count >= 1
            /\ processed_count' = processed_count + 1]_vars

C7_Witness ==
    /\ last.outcome = "ok"
    /\ last.code_data = F_plain
    /\ last.row_number = 2
    /\ processed_count = 2
    /\ Sanitize(F_slash) = Sanitize(F_plain)
    /\ Cardinality(DOMAIN files) = 1

\* the characters a safe filename may hold
SafeChar(c) ==
    \/ c \in AsciiDigits \cup UnicodeDigits
    \/ c \in Range(UpperLetters) \cup Range(LowerLetters)
    \/ c \in {"-", "_"}

\* C8: the filename derivation applied to its own result yields that result,
\* and the result holds only alphanumeric characters, hyphens and underscores
\* (for the code of the row just handled and for the name it was saved under).
C8_SanitizeIdempotent ==
    /\ Sanitize(Sanitize(last.code_data)) = Sanitize(last.code_data)
    /\ \A k \in DOMAIN Sanitize(last.code_data) : SafeChar(Sanitize(last.code_data)[k])
    /\ Sanitize(last.safe_filename) = last.safe_filename
    /\ \A k \in DOMAIN last.safe_filename : SafeChar(last.safe_filename[k])

C8_Witness ==
    /\ last.code_data = F_spaced
    /\ last.outcome = "ok"
    /\ last.safe_filename = <<"a","-","_","b">>

\* C9: the CSV handle is closed whenever the run has ended, it is closed only
\* by leaving the read loop, and a row is read only while it is open.
C9_FileClosedOnEveryExit ==
    [][/\ pc' = "done" => ~fileOpen'
       /\ (fileOpen /\ ~fileOpen') => pc' = "done"
       /\ i' # i => (fileOpen /\ fileOpen')]_vars

C9_Witness ==
    /\ pc = "done"
    /\ exit = "read_error"
    /\ i = 1
    /\ ~fileOpen

\* C10: processed + skipped is the number of data rows handled, and a step
\* that handles a row adds one to exactly one of the two counters.
C10_CountersPartitionRows ==
    /\ processed_count + skipped_count = i
    /\ [][/\ processed_count' + skipped_count' = i'
          /\ RowStep =>
               \/ processed_count' = processed_count + 1 /\ skipped_count' = skipped_count
               \/ processed_count' = processed_count /\ skipped_count' = skipped_count + 1]_vars

C10_Witness ==
    /\ pc = "done"
    /\ exit = "completed"
    /\ i = 2
    /\ processed_count = 1
    /\ skipped_count = 1
    /\ last.outcome = "short"

=============================================================================
